---- MODULE Spec2Model ----
(***************************************************************************)
(* Model of HPOlibExperimentUtils/validate_benchmark.py (validate_benchmark)*)
(* and of HPOBenchExperimentUtils/optimizer/fabolas_optimizer.py            *)
(* (FabolasOptimizer, FabolasWithMUMBO).                                    *)
(*                                                                         *)
(* Spec     : one call of validate_benchmark.                               *)
(* SpecFab  : construction and run of one Fabolas optimizer object.         *)
(***************************************************************************)
EXTENDS Integers, Sequences, FiniteSets, TLC

(***************************************************************************)
(* Bounds of the model.                                                    *)
(***************************************************************************)
\* number of hpolib_trajectory.txt files below output_dir
MaxTraj == 2
\* total number of entries over all trajectory files
MaxEntries == 3

(***************************************************************************)
(* Program constants and input domains of validate_benchmark.              *)
(***************************************************************************)
\* validate_benchmark.py:85, the value a configuration starts with
Placeholder == -1234

\* configurations that occur in trajectories (the value of one hyperparameter)
Configs == {1, 2}

\* str(configuration): the key of the result map
StrTable == <<"{x: 1}", "{x: 2}">>
Str(c) == StrTable[c]

\* keys the validation runhistory may hold: those of Configs and one more
StoredKeys == {Str(c) : c \in Configs} \cup {"{x: 3}"}

\* function_value an evaluation may return
TestValues == {Placeholder, 3}
\* function_value a previous validation run may have stored
StoredValues == {Placeholder, 7}

DirKinds == {"dir", "file", "missing"}

VARIABLES
    pc,                          \* position in validate_benchmark
    output_dir,                  \* what the path output_dir is on disk
    recompute_all,
    files,                       \* the trajectory files on disk, by path
    unvalidated_trajectories_paths,
    unvalidated_trajectories,
    unvalidated_configurations,
    validation_results,
    already_evaluated_configs,
    benchmark_obj,               \* "none", "bookkeeper", "deleted"
    i_config,                    \* index of the evaluation loop
    test_calls,                  \* calls of objective_function_test, in order
    written,                     \* calls of write_validated_trajectory, in order
    i_traj,                      \* index of the write loop
    fab                          \* state of the Fabolas optimizer object

vvars == <<pc, output_dir, recompute_all, files, unvalidated_trajectories_paths,
           unvalidated_trajectories, unvalidated_configurations,
           validation_results, already_evaluated_configs, benchmark_obj,
           i_config, test_calls, written, i_traj>>

vars == <<vvars, fab>>

(***************************************************************************)
(* Helpers.                                                                *)
(***************************************************************************)
EmptyMap == [k \in {} |-> 0]

RECURSIVE Concat(_)
Concat(ss) == IF ss = <<>> THEN <<>> ELSE Head(ss) \o Concat(Tail(ss))

RECURSIVE TotalLen(_)
TotalLen(ss) == IF ss = <<>> THEN 0 ELSE Len(Head(ss)) + TotalLen(Tail(ss))

Range(s) == {s[i] : i \in DOMAIN s}

MinOf(a, b) == IF a <= b THEN a ELSE b

\* one trajectory file: its entries' configurations, in file order
Trajectories == UNION {[1..k -> Configs] : k \in 0..MaxEntries}

\* the trajectory files a directory tree may hold, in the order rglob yields them
TrajectorySets ==
    {ts \in UNION {[1..n -> Trajectories] : n \in 0..MaxTraj} :
        TotalLen(ts) <= MaxEntries}

\* the validation runhistories the directory may hold
StoredSets == UNION {[ks -> StoredValues] : ks \in SUBSET StoredKeys}

(***************************************************************************)
(* validate_benchmark, statement by statement.                             *)
(***************************************************************************)
\* line 80 with the check dropped
IsDirAlways(kind) == TRUE
\* line 80: output_dir.is_dir()
IsDir(kind) == kind = "dir"

\* line 82: list(output_dir.rglob('hpolib_trajectory.txt')); paths are 1..n
Rglob(fs) == [i \in 1..Len(fs) |-> i]

\* line 83: load_trajectories(paths): the content of each path, in order
LoadTrajectories(paths, fs) == [i \in 1..Len(paths) |-> fs[paths[i]]]

\* line 84: get_unvalidated_configurations: every entry's configuration of
\* every trajectory, duplicates kept
GetUnvalidatedConfigurations(trajs) == Concat(trajs)

\* line 85: {str(configuration): -1234 for configuration in ...}
InitResults(configs) == [s \in {Str(c) : c \in Range(configs)} |-> Placeholder]

\* dict.update
Update(a, b) ==
    [k \in DOMAIN a \cup DOMAIN b |-> IF k \in DOMAIN b THEN b[k] ELSE a[k]]

\* lines 92-93 with recompute_all ignored
MergeStoredAlways(results, stored, recompute) == Update(results, stored)
\* lines 92-93: if not recompute_all: validation_results.update(...)
MergeStored(results, stored, recompute) ==
    IF ~recompute THEN Update(results, stored) ELSE results

\* line 126: if validation_results[config_str] != -1234: continue
AlreadyValidated(results, c) == results[Str(c)] # Placeholder

\* line 133: validation_results[config_str] = result_dict['function_value']
StoreResult(results, c, v) == [results EXCEPT ![Str(c)] = v]

\* lines 138-139 with the loop variables replaced by the first elements
WriteCallFirstOnly(i) ==
    [traj    |-> unvalidated_trajectories[1],
     results |-> validation_results,
     path    |-> unvalidated_trajectories_paths[1]]
\* lines 138-139: the arguments of one write_validated_trajectory call (the
\* trajectory and its path are each passed twice)
WriteCall(i) ==
    [traj    |-> unvalidated_trajectories[i],
     results |-> validation_results,
     path    |-> unvalidated_trajectories_paths[i]]

\* line 137 when only the first trajectory is taken
ZipLenFirstOnly ==
    MinOf(1, MinOf(Len(unvalidated_trajectories), Len(unvalidated_trajectories_paths)))
\* line 137: zip(...) stops at the shorter list
ZipLen == MinOf(Len(unvalidated_trajectories), Len(unvalidated_trajectories_paths))

VInit ==
    /\ pc = "start"
    /\ output_dir \in DirKinds
    /\ recompute_all \in BOOLEAN
    /\ files = <<>>
    /\ unvalidated_trajectories_paths = <<>>
    /\ unvalidated_trajectories = <<>>
    /\ unvalidated_configurations = <<>>
    /\ validation_results = EmptyMap
    /\ already_evaluated_configs = EmptyMap
    /\ benchmark_obj = "none"
    /\ i_config = 0
    /\ test_calls = <<>>
    /\ written = <<>>
    /\ i_traj = 0

\* lines 78-80: the assertion holds
AssertDirOk ==
    /\ pc = "start"
    /\ IsDir(output_dir)
    /\ pc' = "list"
    /\ UNCHANGED <<output_dir, recompute_all, files, unvalidated_trajectories_paths,
                   unvalidated_trajectories, unvalidated_configurations,
                   validation_results, already_evaluated_configs, benchmark_obj,
                   i_config, test_calls, written, i_traj, fab>>

\* lines 78-80: the assertion fails and the AssertionError leaves the function
AssertDirFails ==
    /\ pc = "start"
    /\ ~IsDir(output_dir)
    /\ pc' = "AssertionError"
    /\ UNCHANGED <<output_dir, recompute_all, files, unvalidated_trajectories_paths,
                   unvalidated_trajectories, unvalidated_configurations,
                   validation_results, already_evaluated_configs, benchmark_obj,
                   i_config, test_calls, written, i_traj, fab>>

\* lines 82-85: find and load the trajectories, build the result map.
\* rglob on a path that is no directory yields nothing.
LoadUnvalidated ==
    /\ pc = "list"
    /\ \E ts \in TrajectorySets :
        /\ output_dir # "dir" => ts = <<>>
        /\ files' = ts
        /\ unvalidated_trajectories_paths' = Rglob(ts)
        /\ unvalidated_trajectories' = LoadTrajectories(Rglob(ts), ts)
        /\ unvalidated_configurations' =
               GetUnvalidatedConfigurations(LoadTrajectories(Rglob(ts), ts))
        /\ validation_results' =
               InitResults(GetUnvalidatedConfigurations(LoadTrajectories(Rglob(ts), ts)))
    /\ pc' = "load_validated"
    /\ UNCHANGED <<output_dir, recompute_all, already_evaluated_configs, benchmark_obj,
                   i_config, test_calls, written, i_traj, fab>>

\* lines 87-93: load the validation runhistory, merge it unless recompute_all
LoadValidated ==
    /\ pc = "load_validated"
    /\ \E st \in StoredSets :
        /\ output_dir # "dir" => st = EmptyMap
        /\ already_evaluated_configs' = st
        /\ validation_results' = MergeStored(validation_results, st, recompute_all)
    /\ pc' = "instantiate"
    /\ UNCHANGED <<output_dir, recompute_all, files, unvalidated_trajectories_paths,
                   unvalidated_trajectories, unvalidated_configurations, benchmark_obj,
                   i_config, test_calls, written, i_traj, fab>>

\* lines 96-116: load the benchmark, instantiate it, wrap it in the Bookkeeper
Instantiate ==
    /\ pc = "instantiate"
    /\ benchmark_obj' = "bookkeeper"
    /\ i_config' = 1
    /\ pc' = "evaluate"
    /\ UNCHANGED <<output_dir, recompute_all, files, unvalidated_trajectories_paths,
                   unvalidated_trajectories, unvalidated_configurations,
                   validation_results, already_evaluated_configs,
                   test_calls, written, i_traj, fab>>

\* lines 121-127: the configuration has a result already: continue
EvaluateSkip ==
    /\ pc = "evaluate"
    /\ i_config <= Len(unvalidated_configurations)
    /\ AlreadyValidated(validation_results, unvalidated_configurations[i_config])
    /\ i_config' = i_config + 1
    /\ UNCHANGED <<pc, output_dir, recompute_all, files, unvalidated_trajectories_paths,
                   unvalidated_trajectories, unvalidated_configurations,
                   validation_results, already_evaluated_configs, benchmark_obj,
                   test_calls, written, i_traj, fab>>

\* lines 121-133: evaluate the configuration on the test objective
EvaluateCall ==
    /\ pc = "evaluate"
    /\ i_config <= Len(unvalidated_configurations)
    /\ ~AlreadyValidated(validation_results, unvalidated_configurations[i_config])
    /\ \E v \in TestValues :
        /\ test_calls' = Append(test_calls,
               [configuration |-> unvalidated_configurations[i_config],
                function_value |-> v])
        /\ validation_results' =
               StoreResult(validation_results, unvalidated_configurations[i_config], v)
    /\ i_config' = i_config + 1
    /\ UNCHANGED <<pc, output_dir, recompute_all, files, unvalidated_trajectories_paths,
                   unvalidated_trajectories, unvalidated_configurations,
                   already_evaluated_configs, benchmark_obj, written, i_traj, fab>>

\* line 135: the loop is over, benchmark.__del__()
DeleteBenchmark ==
    /\ pc = "evaluate"
    /\ i_config > Len(unvalidated_configurations)
    /\ benchmark_obj' = "deleted"
    /\ i_traj' = 1
    /\ pc' = "write"
    /\ UNCHANGED <<output_dir, recompute_all, files, unvalidated_trajectories_paths,
                   unvalidated_trajectories, unvalidated_configurations,
                   validation_results, already_evaluated_configs,
                   i_config, test_calls, written, fab>>

\* lines 137-139: one iteration of the write loop
WriteValidatedTrajectory ==
    /\ pc = "write"
    /\ i_traj <= ZipLen
    /\ written' = Append(written, WriteCall(i_traj))
    /\ i_traj' = i_traj + 1
    /\ UNCHANGED <<pc, output_dir, recompute_all, files, unvalidated_trajectories_paths,
                   unvalidated_trajectories, unvalidated_configurations,
                   validation_results, already_evaluated_configs, benchmark_obj,
                   i_config, test_calls, fab>>

\* line 141: return 1
Return ==
    /\ pc = "write"
    /\ i_traj > ZipLen
    /\ pc' = "done"
    /\ UNCHANGED <<output_dir, recompute_all, files, unvalidated_trajectories_paths,
                   unvalidated_trajectories, unvalidated_configurations,
                   validation_results, already_evaluated_configs, benchmark_obj,
                   i_config, test_calls, written, i_traj, fab>>

FabIdle == [pc |-> "idle"]

Init == VInit /\ fab = FabIdle

Next ==
    \/ AssertDirOk
    \/ AssertDirFails
    \/ LoadUnvalidated
    \/ LoadValidated
    \/ Instantiate
    \/ EvaluateSkip
    \/ EvaluateCall
    \/ DeleteBenchmark
    \/ WriteValidatedTrajectory
    \/ Return

Spec == Init /\ [][Next]_vars

(***************************************************************************)
(* fabolas_optimizer.py: bounds and input domains.                         *)
(***************************************************************************)
\* largest bound of an integer fidelity
MaxBudget == 3
\* largest setting num_fidelity_values
MaxNumFid == 3
\* largest setting init_samples_per_dim, in halves
MaxInitHalves == 3
\* largest dimensionality of the emukit parameter space
MaxDim == 2
\* iterations of the Bayesian-optimization loop that are explored
MaxIters == 2

(***************************************************************************)
(* Floats are modelled as fractions <<numerator, denominator>> in lowest   *)
(* terms, denominator > 0.                                                 *)
(***************************************************************************)
Abs(n) == IF n < 0 THEN -n ELSE n

RECURSIVE GCD(_, _)
GCD(a, b) == IF b = 0 THEN a ELSE GCD(b, a % b)

RatNorm(n, d) == LET g == GCD(Abs(n), d) IN <<n \div g, d \div g>>
RatAdd(p, q) == RatNorm(p[1] * q[2] + q[1] * p[2], p[2] * q[2])
RatSub(p, q) == RatNorm(p[1] * q[2] - q[1] * p[2], p[2] * q[2])
RatMul(p, q) == RatNorm(p[1] * q[1], p[2] * q[2])
RatDiv(p, q) == RatNorm(p[1] * q[2], p[2] * q[1])
RatLeq(p, q) == p[1] * q[2] <= q[1] * p[2]
RatLt(p, q) == p[1] * q[2] < q[1] * p[2]
RatMax(p, q) == IF RatLeq(p, q) THEN q ELSE p

\* arrays are sequences; a[i] of Python reads element i+1, a negative i counts
\* from the end
PyGet(a, i) == IF i >= 0 THEN a[i + 1] ELSE a[Len(a) + i + 1]

\* np.arange(start, stop) on integers
Arange(start, stop) ==
    [i \in 1..(IF stop > start THEN stop - start ELSE 0) |-> start + i - 1]

\* np.linspace(start, stop, num), endpoint included
Linspace(start, stop, num) ==
    [i \in 1..num |->
        IF num > 1 /\ i = num THEN stop
        ELSE IF num = 1 THEN start
        ELSE RatAdd(start, RatMul(RatNorm(i - 1, num - 1), RatSub(stop, start)))]

\* np.tile(a, reps) of a one-dimensional array
RECURSIVE Tile(_, _)
Tile(a, reps) == IF reps <= 0 THEN <<>> ELSE a \o Tile(a, reps - 1)

\* a[:n]
Take(a, n) == SubSeq(a, 1, MinOf(n, Len(a)))

FidelityTypes == {"UniformInteger", "UniformFloat", "Ordinal", "Categorical", "Constant"}

IntBudgets == 0..MaxBudget
FloatBudgets == {<<0, 1>>, <<1, 4>>, <<1, 1>>, <<3, 2>>}

\* main fidelities and the budgets the base class derives from them
MainFidelities ==
    {[type |-> "UniformInteger", lower |-> a, upper |-> b, choices |-> <<>>] :
        <<a, b>> \in {ab \in IntBudgets \X IntBudgets : ab[1] < ab[2]}}
    \cup
    {[type |-> "UniformFloat", lower |-> ab[1], upper |-> ab[2], choices |-> <<>>] :
        ab \in {ab \in FloatBudgets \X FloatBudgets : RatLt(ab[1], ab[2])}}
    \cup
    {[type |-> "Ordinal", lower |-> 0, upper |-> 0, choices |-> c] :
        c \in {<<10, 20>>, <<10, 20, 40>>}}
    \cup
    {[type |-> "Categorical", lower |-> 0, upper |-> 0, choices |-> c] :
        c \in {<<20, 10>>, <<40, 10, 20>>}}
    \cup
    {[type |-> "Constant", lower |-> 0, upper |-> 0, choices |-> <<>>]}

\* benchmark.benchmark: the attributes FabolasOptimizer reads
Benchmarks ==
    {[X_train |-> TRUE, y_train |-> TRUE, n_train |-> 8],
     [X_train |-> FALSE, y_train |-> TRUE, n_train |-> 8],
     [X_train |-> TRUE, y_train |-> FALSE, n_train |-> 0]}

\* the optimizer object before __init__ runs; the settings it will read
NewOptimizer(cls, mf, bm, num, halves, dim) ==
    [pc |-> "new", cls |-> cls, main_fidelity |-> mf,
     min_budget |-> mf.lower, max_budget |-> mf.upper,
     benchmark |-> bm,
     num_fidelity_values |-> num, init_samples_per_dim |-> <<halves, 2>>,
     dimensionality |-> dim,
     error |-> "none",
     s_min |-> 0, s_max |-> 0,
     has_info_sources |-> FALSE, info_sources |-> <<>>,
     emukit_fidelity |-> <<0, 0>>,
     n_init |-> 0,
     sample_fidelities |-> <<>>, i_init |-> 0,
     target_information_source_index |-> 0,
     hooks |-> FALSE, iterations |-> 0,
     log |-> <<>>]

FabInputs ==
    {NewOptimizer("FabolasOptimizer", mf, bm, 0, h, d) :
        mf \in MainFidelities, bm \in Benchmarks, h \in {MaxInitHalves}, d \in {1}}
    \cup
    {NewOptimizer("FabolasWithMUMBO", mf, bm, num, h, d) :
        mf \in {m \in MainFidelities : m.type # "UniformFloat"},
        bm \in {[X_train |-> TRUE, y_train |-> TRUE, n_train |-> 8]},
        num \in {0}, h \in 0..MaxInitHalves, d \in 1..MaxDim}
    \cup
    {NewOptimizer("FabolasWithMUMBO", mf, bm, num, h, d) :
        mf \in {m \in MainFidelities : m.type = "UniformFloat"},
        bm \in {[X_train |-> TRUE, y_train |-> TRUE, n_train |-> 8]},
        num \in 0..MaxNumFid, h \in 0..MaxInitHalves, d \in 1..MaxDim}

\* lines 64-65, 144-145: int(init_samples_per_dim * dimensionality)
NInit(f) == (f.init_samples_per_dim[1] * f.dimensionality) \div f.init_samples_per_dim[2]

(***************************************************************************)
(* FabolasOptimizer.__init__                                               *)
(***************************************************************************)
\* lines 35, 41, 52: the fidelity types FabolasOptimizer handles
FabolasSupported(type) == type \in {"UniformInteger", "UniformFloat"}

\* lines 44-48: the assertions of the float branch
FloatAsserts(f) ==
    /\ f.benchmark.X_train
    /\ f.benchmark.y_train
    /\ RatLeq(<<0, 1>>, f.main_fidelity.lower)
    /\ RatLeq(f.main_fidelity.upper, <<1, 1>>)

\* lines 35-65
FabolasInit(f) ==
    IF f.main_fidelity.type = "UniformInteger"
    THEN [f EXCEPT !.pc = "constructed",
                   !.s_min = IF f.main_fidelity.lower >= 1 THEN f.main_fidelity.lower ELSE 1,
                   !.s_max = f.main_fidelity.upper,
                   !.n_init = NInit(f)]
    ELSE IF f.main_fidelity.type = "UniformFloat"
    THEN IF FloatAsserts(f)
         THEN [f EXCEPT !.pc = "constructed",
                        !.s_min = RatMax(RatMul(f.main_fidelity.lower,
                                                <<f.benchmark.n_train, 1>>), <<1, 1>>),
                        !.s_max = RatMul(f.main_fidelity.upper, <<f.benchmark.n_train, 1>>),
                        !.n_init = NInit(f)]
         ELSE [f EXCEPT !.pc = "error", !.error = "AssertionError"]
    ELSE [f EXCEPT !.pc = "error", !.error = "RuntimeError: unsupported fidelity type"]

\* lines 40, 51: subsample_to_cs_fidel
SubsampleToCsFidel(f, s) ==
    IF f.main_fidelity.type = "UniformInteger" THEN s ELSE RatDiv(s, f.s_max)

(***************************************************************************)
(* FabolasWithMUMBO.__init__                                               *)
(***************************************************************************)
\* lines 95-109: the branches that set self.info_sources
MumboSupported(type) ==
    type \in {"UniformFloat", "Ordinal", "Categorical", "UniformInteger"}

\* line 109 with the + 1 forgotten
IntegerLevelsExclusive(f) == Arange(f.min_budget, f.max_budget)
\* line 109: np.arange(start=self.min_budget, stop=self.max_budget + 1)
IntegerLevels(f) == Arange(f.min_budget, f.max_budget + 1)

\* line 102: np.linspace(self.min_budget, self.max_budget, num_fidelity_values)
FloatLevels(f) == Linspace(f.min_budget, f.max_budget, f.num_fidelity_values)

\* line 105: get_seq_order() numbers the ordinal's values 0 .. n-1
OrdinalLevels(f) == Arange(0, Len(f.main_fidelity.choices))

\* line 107: np.asarray(self.main_fidelity.choices)
CategoricalLevels(f) == f.main_fidelity.choices

\* lines 95-109
InfoSources(f) ==
    IF f.main_fidelity.type = "UniformFloat" THEN FloatLevels(f)
    ELSE IF f.main_fidelity.type = "Ordinal" THEN OrdinalLevels(f)
    ELSE IF f.main_fidelity.type = "Categorical" THEN CategoricalLevels(f)
    ELSE IntegerLevels(f)

\* line 115: SmarterInformationSourceParameter(n, start_ind=1).bounds[0]
InformationSourceBounds(n, start_ind) == <<start_ind, start_ind + n - 1>>

\* lines 95-157. Without a branch for the type, line 115 reads an attribute
\* that was never set.
MumboInit(f) ==
    IF MumboSupported(f.main_fidelity.type)
    THEN [f EXCEPT !.pc = "constructed",
                   !.has_info_sources = TRUE,
                   !.info_sources = InfoSources(f),
                   !.emukit_fidelity = InformationSourceBounds(Len(InfoSources(f)), 1),
                   !.n_init = NInit(f)]
    ELSE [f EXCEPT !.pc = "error",
                   !.error = "AttributeError: no attribute info_sources"]

\* line 116: lambda s: {name: self.info_sources[int(s)-1]}
FidelityEmukitToCs(f, s) == PyGet(f.info_sources, s - 1)

\* line 175 without the + 1
NRepsFloor(f) == f.n_init \div Len(f.info_sources)
\* line 175: n_reps = self.n_init // self.info_sources.shape[0] + 1
NReps(f) == f.n_init \div Len(f.info_sources) + 1

\* lines 178-179: np.tile(np.arange(s_min, s_max+1), n_reps)[:self.n_init]
SampleFidelities(f) ==
    Take(Tile(Arange(f.emukit_fidelity[1], f.emukit_fidelity[2] + 1), NReps(f)), f.n_init)

\* one entry of the log: an objective evaluation or a hook that fired
ObjectiveCall(phase, s, fidelity) ==
    [kind |-> "objective_function", phase |-> phase, s |-> s, fidelity |-> fidelity]
HookCall(name) ==
    [kind |-> name, phase |-> "loop", s |-> 0, fidelity |-> 0]

\* the validate_benchmark variables while an optimizer is looked at
VIdle ==
    /\ pc = "idle"
    /\ output_dir = "dir"
    /\ recompute_all = FALSE
    /\ files = <<>>
    /\ unvalidated_trajectories_paths = <<>>
    /\ unvalidated_trajectories = <<>>
    /\ unvalidated_configurations = <<>>
    /\ validation_results = EmptyMap
    /\ already_evaluated_configs = EmptyMap
    /\ benchmark_obj = "none"
    /\ i_config = 0
    /\ test_calls = <<>>
    /\ written = <<>>
    /\ i_traj = 0

FabInit == VIdle /\ fab \in FabInputs

\* FabolasOptimizer(benchmark, settings, output_dir, rng)
ConstructFabolas ==
    /\ fab.pc = "new"
    /\ fab.cls = "FabolasOptimizer"
    /\ fab' = FabolasInit(fab)
    /\ UNCHANGED vvars

\* FabolasOptimizer.run: fmin_fabolas evaluates the wrapper at dataset sizes
\* between s_min and s_max
FabolasRun ==
    /\ fab.pc = "constructed"
    /\ fab.cls = "FabolasOptimizer"
    /\ fab.iterations < MaxIters
    /\ \E s \in {fab.s_min, fab.s_max} :
        fab' = [fab EXCEPT !.iterations = @ + 1,
                           !.log = Append(@, ObjectiveCall("fmin_fabolas", s,
                                                           SubsampleToCsFidel(fab, s)))]
    /\ UNCHANGED vvars

\* FabolasWithMUMBO(benchmark, settings, output_dir, rng)
ConstructMumbo ==
    /\ fab.pc = "new"
    /\ fab.cls = "FabolasWithMUMBO"
    /\ fab' = MumboInit(fab)
    /\ UNCHANGED vvars

\* run, _setup_model lines 173-182: the warm-start design
SetupWarmStart ==
    /\ fab.pc = "constructed"
    /\ fab.cls = "FabolasWithMUMBO"
    /\ Len(fab.info_sources) > 0
    /\ fab' = [fab EXCEPT !.pc = "warm_start",
                          !.sample_fidelities = SampleFidelities(fab),
                          !.i_init = 1]
    /\ UNCHANGED vvars

\* line 175 with no fidelity level: the integer division fails
SetupDivisionByZero ==
    /\ fab.pc = "constructed"
    /\ fab.cls = "FabolasWithMUMBO"
    /\ Len(fab.info_sources) = 0
    /\ fab' = [fab EXCEPT !.pc = "error", !.error = "ZeroDivisionError"]
    /\ UNCHANGED vvars

\* line 183: the next row of X_init goes through benchmark_caller
WarmStartEvaluate ==
    /\ fab.pc = "warm_start"
    /\ fab.i_init <= Len(fab.sample_fidelities)
    /\ fab' = [fab EXCEPT
                 !.i_init = @ + 1,
                 !.log = Append(@, ObjectiveCall("warm_start",
                            fab.sample_fidelities[fab.i_init],
                            FidelityEmukitToCs(fab, fab.sample_fidelities[fab.i_init])))]
    /\ UNCHANGED vvars

\* lines 184-237: models, acquisition, loop object and the two hooks
FinishSetup ==
    /\ fab.pc = "warm_start"
    /\ fab.i_init > Len(fab.sample_fidelities)
    /\ fab' = [fab EXCEPT !.pc = "ready",
                          !.target_information_source_index = fab.emukit_fidelity[2],
                          !.hooks = TRUE]
    /\ UNCHANGED vvars

\* line 245: run_loop fires loop_start_event
LoopStart ==
    /\ fab.pc = "ready"
    /\ fab' = [fab EXCEPT !.pc = "loop",
                          !.log = IF fab.hooks
                                  THEN Append(@, HookCall("init_trajectory_hook"))
                                  ELSE @]
    /\ UNCHANGED vvars

\* line 245: one iteration of run_loop: the acquisition picks an information
\* source, the wrapper evaluates it, iteration_end_event fires
LoopIteration ==
    /\ fab.pc = "loop"
    /\ fab.iterations < MaxIters
    /\ \E s \in fab.emukit_fidelity[1]..fab.emukit_fidelity[2] :
        fab' = [fab EXCEPT
                  !.iterations = @ + 1,
                  !.log = @ \o <<ObjectiveCall("loop", s, FidelityEmukitToCs(fab, s))>>
                            \o (IF fab.hooks THEN <<HookCall("trajectory_hook")>> ELSE <<>>)]
    /\ UNCHANGED vvars

FabNext ==
    \/ ConstructFabolas
    \/ FabolasRun
    \/ ConstructMumbo
    \/ SetupWarmStart
    \/ SetupDivisionByZero
    \/ WarmStartEvaluate
    \/ FinishSetup
    \/ LoopStart
    \/ LoopIteration

SpecFab == FabInit /\ [][FabNext]_vars

(***************************************************************************)
(* Properties of validate_benchmark.                                       *)
(***************************************************************************)
\* configurations that appear in a loaded trajectory
TrajectoryConfigs == UNION {Range(unvalidated_trajectories[t]) :
                                t \in DOMAIN unvalidated_trajectories}

\* the calls of objective_function_test made for the key k
CallsOf(k) == {i \in DOMAIN test_calls : Str(test_calls[i].configuration) = k}

Evaluated(c) == CallsOf(Str(c)) # {}

\* function_value of the last evaluation of c
LastValue(c) ==
    test_calls[CHOOSE i \in CallsOf(Str(c)) : \A j \in CallsOf(Str(c)) : j <= i].function_value

HasStored(k) == k \in DOMAIN already_evaluated_configs

\* C1: when validate_benchmark returns, every configuration of a loaded
\* trajectory has a result, which is the function_value the test objective
\* returned for it or its stored validated value, and none is left with the
\* placeholder value.
C1_EveryConfigurationValidated ==
    pc = "done" =>
        \A c \in TrajectoryConfigs :
            /\ Str(c) \in DOMAIN validation_results
            /\ \/ Evaluated(c) /\ validation_results[Str(c)] = LastValue(c)
               \/ HasStored(Str(c))
                    /\ validation_results[Str(c)] = already_evaluated_configs[Str(c)]
            /\ validation_results[Str(c)] # Placeholder

\* C2: with recompute_all = False a configuration the validation runhistory
\* holds is never passed to objective_function_test, and the result map that
\* rewrites the trajectories holds its stored value, whatever that value is.
C2_StoredConfigurationKept ==
    (~recompute_all /\ pc \in {"instantiate", "evaluate", "write", "done"}) =>
        \A k \in DOMAIN already_evaluated_configs :
            /\ CallsOf(k) = {}
            /\ validation_results[k] = already_evaluated_configs[k]
            /\ \A w \in DOMAIN written :
                   written[w].results[k] = already_evaluated_configs[k]

\* C3: with recompute_all = True every distinct configuration of the
\* trajectories is evaluated in this run, stored result or not, and the result
\* used for it (in the map and in every rewrite) is the newly computed one.
C3_RecomputeAll ==
    (recompute_all /\ pc = "done") =>
        \A c \in TrajectoryConfigs :
            /\ Evaluated(c)
            /\ validation_results[Str(c)] = LastValue(c)
            /\ \A w \in DOMAIN written : written[w].results[Str(c)] = LastValue(c)

C3_Witness ==
    /\ recompute_all
    /\ pc = "done"
    /\ written # <<>>
    /\ \E c \in TrajectoryConfigs :
        /\ HasStored(Str(c))
        /\ already_evaluated_configs[Str(c)] # Placeholder
        /\ LastValue(c) # already_evaluated_configs[Str(c)]

\* C4: objective_function_test is called at most once per distinct
\* configuration (by its string form) in one run, whatever the evaluations
\* return.
C4_EvaluatedAtMostOnce ==
    \A i, j \in DOMAIN test_calls :
        i # j => Str(test_calls[i].configuration) # Str(test_calls[j].configuration)

C7_AssertBeforeAnything ==
    output_dir # "dir" =>
        /\ pc \in {"start", "AssertionError"}
        /\ files = <<>>
        /\ unvalidated_trajectories = <<>>
        /\ unvalidated_trajectories_paths = <<>>
        /\ validation_results = EmptyMap
        /\ benchmark_obj = "none"
        /\ test_calls = <<>>
        /\ written = <<>>

C7_Witness == pc = "AssertionError" /\ output_dir = "missing"

(***************************************************************************)
(* Properties of the Fabolas optimizers.                                   *)
(***************************************************************************)
ObjectiveCalls == {i \in DOMAIN fab.log : fab.log[i].kind = "objective_function"}

WarmStartCalls == {i \in ObjectiveCalls : fab.log[i].phase = "warm_start"}

\* the number of fidelity levels
NumLevels == Len(fab.info_sources)

\* C8: a main fidelity of a type the class does not handle makes the
\* constructor fail with an error about the unsupported fidelity type, before
\* the objective function is called.
C8_UnsupportedFidelityRejected ==
    ( /\ fab.pc # "new"
      /\ \/ /\ fab.cls = "FabolasOptimizer"
            /\ fab.main_fidelity.type \notin {"UniformInteger", "UniformFloat"}
         \/ /\ fab.cls = "FabolasWithMUMBO"
            /\ fab.main_fidelity.type \notin
                   {"UniformFloat", "Ordinal", "Categorical", "UniformInteger"} )
    => /\ fab.pc = "error"
       /\ fab.error = "RuntimeError: unsupported fidelity type"
       /\ ObjectiveCalls = {}

\* what C9 says of the indices: they are 1..N, index s reads level s-1 of the
\* list, and the indices and the levels correspond one to one
IndexMapping ==
    /\ fab.emukit_fidelity = <<1, NumLevels>>
    /\ \A s \in 1..NumLevels : FidelityEmukitToCs(fab, s) = fab.info_sources[s]
    /\ {FidelityEmukitToCs(fab, s) : s \in 1..NumLevels} = Range(fab.info_sources)
    /\ fab.main_fidelity.type \in {"UniformInteger", "UniformFloat"} =>
           Cardinality({FidelityEmukitToCs(fab, s) : s \in 1..NumLevels}) = NumLevels

IntegerLevelsExact ==
    fab.main_fidelity.type = "UniformInteger" =>
        /\ NumLevels = fab.max_budget - fab.min_budget + 1
        /\ \A i \in 1..NumLevels : fab.info_sources[i] = fab.min_budget + i - 1

\* C9 as stated: integer levels are min_budget..max_budget in order, float
\* levels are num_fidelity_values many with first min_budget and last
\* max_budget, the indices are 1..N and map one to one onto the levels, and
\* the target index N maps to max_budget.
C9_Discretization ==
    (fab.cls = "FabolasWithMUMBO" /\ fab.has_info_sources) =>
        /\ IntegerLevelsExact
        /\ fab.main_fidelity.type = "UniformFloat" =>
               /\ NumLevels = fab.num_fidelity_values
               /\ NumLevels >= 1 =>
                      /\ fab.info_sources[1] = fab.min_budget
                      /\ fab.info_sources[NumLevels] = fab.max_budget
        /\ IndexMapping
        /\ fab.pc \in {"ready", "loop"} =>
               /\ fab.target_information_source_index = NumLevels
               /\ (fab.main_fidelity.type \in {"UniformInteger", "UniformFloat"}
                      /\ NumLevels >= 1) =>
                      FidelityEmukitToCs(fab, fab.target_information_source_index)
                          = fab.max_budget

\* C9 amended: as C9, but the float levels end at max_budget only when
\* num_fidelity_values >= 2; with num_fidelity_values = 1 the one level, which
\* is also the target, is min_budget, and with 0 there is no level.
C9_DiscretizationAmended ==
    (fab.cls = "FabolasWithMUMBO" /\ fab.has_info_sources) =>
        /\ IntegerLevelsExact
        /\ fab.main_fidelity.type = "UniformFloat" =>
               /\ NumLevels = fab.num_fidelity_values
               /\ NumLevels >= 1 => fab.info_sources[1] = fab.min_budget
               /\ NumLevels >= 2 => fab.info_sources[NumLevels] = fab.max_budget
        /\ IndexMapping
        /\ fab.pc \in {"ready", "loop"} =>
               /\ fab.target_information_source_index = NumLevels
               /\ fab.main_fidelity.type = "UniformInteger" =>
                      FidelityEmukitToCs(fab, fab.target_information_source_index)
                          = fab.max_budget
               /\ fab.main_fidelity.type = "UniformFloat" =>
                      FidelityEmukitToCs(fab, fab.target_information_source_index)
                          = (IF NumLevels >= 2 THEN fab.max_budget ELSE fab.min_budget)

C9_Witness ==
    /\ fab.cls = "FabolasWithMUMBO"
    /\ fab.pc = "loop"
    /\ fab.main_fidelity.type = "UniformFloat"
    /\ fab.num_fidelity_values = 3
    /\ \E i \in ObjectiveCalls :
        /\ fab.log[i].phase = "loop"
        /\ fab.log[i].s = fab.target_information_source_index
        /\ fab.log[i].fidelity = fab.max_budget

\* C10: exactly n_init objective evaluations are made in the warm start, all
\* of them before the loop starts and before a trajectory hook fires; the
\* j-th (from 0) is made at fidelity index (j mod N) + 1, which lies in 1..N.
C10_WarmStart ==
    fab.cls = "FabolasWithMUMBO" =>
        /\ \A i \in WarmStartCalls :
               /\ i <= fab.n_init
               /\ \A k \in 1..i : k \in WarmStartCalls
               /\ fab.log[i].s = ((i - 1) % NumLevels) + 1
               /\ fab.log[i].s \in 1..NumLevels
               /\ fab.log[i].fidelity = fab.info_sources[fab.log[i].s]
        /\ fab.pc = "warm_start" => DOMAIN fab.log = WarmStartCalls
        /\ fab.pc \in {"ready", "loop"} => WarmStartCalls = 1..fab.n_init
        /\ fab.pc \in {"new", "constructed"} => fab.log = <<>>

C10_Witness ==
    /\ fab.cls = "FabolasWithMUMBO"
    /\ fab.pc = "loop"
    /\ NumLevels = 2
    /\ fab.n_init = 3
    /\ Len(fab.log) > fab.n_init + 1
    /\ fab.log[3].s = 1

====
